---- MODULE Spec2Model ----
(***************************************************************************)
(* Clobber, a Matrix moderation bot: the rule matching and enforcement     *)
(* engine, the invite handler, apply_rule and set_rule of src/src/bot.rs,  *)
(* and the command dispatch of src/src/command.rs.                         *)
(*                                                                         *)
(* Strings are sequences of one-character strings, so that the glob        *)
(* matcher and the entity parser work on the characters as the code does.  *)
(***************************************************************************)
EXTENDS Integers, Sequences, FiniteSets, TLC

VARIABLES
    entity,      \* SpecMatch: the entity string handed to the pure functions
    user_id,     \* SpecMatch: the UserId handed to is_match_entity
    called,      \* SpecMatch: which function has been applied ("none" before)
    result,      \* SpecMatch: what it returned
    rule_state,  \* per rule room, the entries get_state_events returns, in order
    joined,      \* the rule rooms the client has joined
    room_member, \* the m.room.member event check_member handles
    pc,          \* where check_member is
    ri,          \* get_rules: index of the rule room the loop is at
    events,      \* get_rules: the accumulator, then check_member's sorted list
    calls,       \* the enforcement calls issued so far, in order
    outcome,     \* how check_member ended: "none", "Ok", "Err", or the unwrap
                 \* that panicked
    allow_invites, \* SpecInvite: config.bot.allow_invites
    invite_event,  \* SpecInvite: the stripped m.room.member event received
    invite_room,   \* SpecInvite: the kind of Room handed to the handler
    ipc,           \* SpecInvite: where the invite handler is
    delay,         \* SpecInvite: accept_invite's local `delay`
    accept_calls,  \* SpecInvite: accept_invitation calls made so far
    accepted,      \* SpecInvite: an accept_invitation call returned Ok
    sleeps,        \* SpecInvite: the durations slept so far, in order
    ilog,          \* SpecInvite: the lines logged so far, in order
    iresult,       \* SpecInvite: what accept_invite returned ("none" before)
    power_levels,  \* SpecApply: the room's m.room.power_levels on the server
    store,         \* SpecApply: the client's local copy of that state event
    membership,    \* SpecApply: per user, the membership in the room
    task,          \* SpecApply: per apply_rule call, its position and locals
    ext_writes,    \* SpecApply: power-levels writes made by other sources
    acalls,        \* SpecApply: the requests apply_rule sent, in order
    command_prefix, \* SpecCommand: config.bot.command_prefix
    message,        \* SpecCommand: the m.room.message event and its room
    cpc,            \* SpecCommand: where on_room_message is
    words,          \* SpecCommand: the word list handed to handle_command
    replies,        \* SpecCommand: the replies sent with send_reply, in order
    set_rule_calls, \* SpecCommand: the set_rule calls made, in order
    cresult,        \* SpecCommand: what handle_command returned
    sr_args,        \* SpecSetRule: entity, action and reason given to set_rule
    sr_rules,       \* SpecSetRule: the state of the rule room written to
    sr_members,     \* SpecSetRule: per protected room, its joined members
    sr_joined,      \* SpecSetRule: the protected rooms the client has joined
    sr_pc,          \* SpecSetRule: where set_rule is
    sr_room,        \* SpecSetRule: index of the protected room the loop is at
    sr_users,       \* SpecSetRule: matching_users not yet iterated over
    sr_calls,       \* SpecSetRule: the requests sent so far, in order
    sr_result       \* SpecSetRule: what set_rule returned ("none" before)

matchVars == <<entity, user_id, called, result>>
botVars == <<rule_state, joined, room_member, pc, ri, events, calls, outcome>>
inviteVars == <<allow_invites, invite_event, invite_room, ipc, delay,
                accept_calls, accepted, sleeps, ilog, iresult>>
vars == <<entity, user_id, called, result,
          rule_state, joined, room_member, pc, ri, events, calls, outcome,
          allow_invites, invite_event, invite_room, ipc, delay,
          accept_calls, accepted, sleeps, ilog, iresult,
          power_levels, store, membership, task, ext_writes, acalls,
          command_prefix, message, cpc, words, replies, set_rule_calls,
          cresult,
          sr_args, sr_rules, sr_members, sr_joined, sr_pc, sr_room, sr_users,
          sr_calls, sr_result>>
applyVars == <<power_levels, store, membership, task, ext_writes, acalls>>
commandVars == <<command_prefix, message, cpc, words, replies,
                 set_rule_calls, cresult>>
setRuleVars == <<sr_args, sr_rules, sr_members, sr_joined, sr_pc, sr_room,
                 sr_users, sr_calls, sr_result>>
\* what the actions of one specification leave alone
nonMatchVars == <<botVars, inviteVars, applyVars, commandVars, setRuleVars>>
nonBotVars == <<matchVars, inviteVars, applyVars, commandVars, setRuleVars>>
nonInviteVars == <<matchVars, botVars, applyVars, commandVars, setRuleVars>>
nonApplyVars == <<matchVars, botVars, inviteVars, commandVars, setRuleVars>>
nonCommandVars == <<matchVars, botVars, inviteVars, applyVars, setRuleVars>>
nonSetRuleVars == <<matchVars, botVars, inviteVars, applyVars, commandVars>>

\* no invite is being handled
InviteIdle ==
    /\ allow_invites = {}
    /\ invite_event = <<>>
    /\ invite_room = "none"
    /\ ipc = "idle"
    /\ delay = 0
    /\ accept_calls = 0
    /\ accepted = FALSE
    /\ sleeps = <<>>
    /\ ilog = <<>>
    /\ iresult = "none"

\* no apply_rule call is running
ApplyIdle ==
    /\ power_levels = <<>>
    /\ store = <<>>
    /\ membership = <<>>
    /\ task = <<>>
    /\ ext_writes = 0
    /\ acalls = <<>>

\* no message is being handled
CommandIdle ==
    /\ command_prefix = <<>>
    /\ message = <<>>
    /\ cpc = "idle"
    /\ words = <<>>
    /\ replies = <<>>
    /\ set_rule_calls = <<>>
    /\ cresult = "none"

\* set_rule is not running
SetRuleIdle ==
    /\ sr_args = <<>>
    /\ sr_rules = <<>>
    /\ sr_members = <<>>
    /\ sr_joined = {}
    /\ sr_pc = "idle"
    /\ sr_room = 0
    /\ sr_users = {}
    /\ sr_calls = <<>>
    /\ sr_result = "none"

(***************************************************************************)
(* Bounds.                                                                 *)
(***************************************************************************)
\* longest entity string drawn in SpecMatch
MaxEntityLen == 4
\* longest localpart and longest server name of a drawn user id
MaxNameLen == 2
\* most entries held by all rule rooms together
MaxRules == 2

(***************************************************************************)
(* Characters and strings.                                                 *)
(***************************************************************************)
\* the characters entity strings are drawn from: the sigil, the delimiter,
\* the glob wildcard, an opening bracket (a character class that is never
\* closed, as "]" is not drawn) and two letters
Chars == {"@", ":", "*", "[", "a", "b"}
\* the characters of localparts and server names
NameChars == {"a", "b"}

SeqsUpTo(S, n) == UNION {[1..k -> S] : k \in 0..n}

contains(s, c) == \E i \in 1..Len(s) : s[i] = c

starts_with(s, p) == Len(s) >= Len(p) /\ SubSeq(s, 1, Len(p)) = p

\* "**" is the glob library's recursive-directory syntax; it is not drawn
NoDoubleStar(s) == \A i \in 1..(Len(s) - 1) : ~(s[i] = "*" /\ s[i + 1] = "*")

Entities == {s \in SeqsUpTo(Chars, MaxEntityLen) : NoDoubleStar(s)}

Names == SeqsUpTo(NameChars, MaxNameLen) \ {<<>>}

\* a UserId: its localpart and its server name
UserIds == [localpart : Names, server_name : Names]

as_str(u) == <<"@">> \o u.localpart \o <<":">> \o u.server_name

(***************************************************************************)
(* anyhow::Result<bool>                                                    *)
(***************************************************************************)
Ok(b) == [tag |-> "Ok", val |-> b, msg |-> ""]
Err(m) == [tag |-> "Err", val |-> FALSE, msg |-> m]
NoResult == [tag |-> "none", val |-> FALSE, msg |-> ""]

(***************************************************************************)
(* globset: Glob::new and GlobMatcher::is_match, default options.          *)
(***************************************************************************)
\* Glob::new fails on a character class that is never closed
GlobNewOk(pattern) == ~contains(pattern, "[")

\* "*" matches any run of characters (no literal separator), every other
\* character of a compiled glob matches itself
RECURSIVE glob_is_match(_, _)
glob_is_match(pattern, s) ==
    IF pattern = <<>> THEN s = <<>>
    ELSE IF Head(pattern) = "*"
         THEN \/ glob_is_match(Tail(pattern), s)
              \/ s # <<>> /\ glob_is_match(pattern, Tail(s))
         ELSE /\ s # <<>>
              /\ Head(s) = Head(pattern)
              /\ glob_is_match(Tail(pattern), Tail(s))

(***************************************************************************)
(* The entity matcher and the entity parser.                               *)
(***************************************************************************)
\* a matcher that forgets the full handle and looks at the server name only
is_match_entity_server_only(u, e) ==
    IF ~GlobNewOk(e) THEN Err("glob")
    ELSE Ok(glob_is_match(e, u.server_name))

is_match_entity(u, e) ==
    IF ~GlobNewOk(e) THEN Err("glob")
    ELSE Ok(glob_is_match(e, as_str(u)) \/ glob_is_match(e, u.server_name))

\* a parser that never rejects: whatever is not a user pattern is a server
is_entity_server_never_rejects(e) ==
    IF starts_with(e, <<"@">>) /\ contains(e, ":") /\ ~starts_with(e, <<"@", ":">>)
    THEN Ok(FALSE)
    ELSE Ok(TRUE)

is_entity_server(e) ==
    IF starts_with(e, <<"@">>) /\ contains(e, ":") /\ ~starts_with(e, <<"@", ":">>)
    THEN Ok(FALSE)
    ELSE IF ~contains(e, ":")
         THEN Ok(TRUE)
         ELSE Err("Not a valid entity")

(***************************************************************************)
(* SpecMatch: the pure functions applied to drawn inputs.                  *)
(***************************************************************************)
BotIdle ==
    /\ rule_state = <<>>
    /\ joined = {}
    /\ room_member = <<>>
    /\ pc = "idle"
    /\ ri = 0
    /\ events = <<>>
    /\ calls = <<>>
    /\ outcome = "none"

InitMatch ==
    /\ entity \in Entities
    /\ user_id \in UserIds
    /\ called = "none"
    /\ result = NoResult
    /\ BotIdle
    /\ InviteIdle
    /\ ApplyIdle
    /\ CommandIdle
    /\ SetRuleIdle

CallIsMatchEntity ==
    /\ called = "none"
    /\ called' = "is_match_entity"
    /\ result' = is_match_entity(user_id, entity)
    /\ UNCHANGED <<entity, user_id>>
    /\ UNCHANGED nonMatchVars

CallIsEntityServer ==
    /\ called = "none"
    /\ called' = "is_entity_server"
    /\ result' = is_entity_server(entity)
    /\ UNCHANGED <<entity, user_id>>
    /\ UNCHANGED nonMatchVars

NextMatch ==
    \/ CallIsMatchEntity
    \/ CallIsEntityServer

SpecMatch == InitMatch /\ [][NextMatch]_vars

(***************************************************************************)
(* Rules and rule rooms.                                                   *)
(***************************************************************************)
\* enum Action, in declaration order; the derived Ord compares by it
Actions == {"Ban", "Kick", "Mute"}

ActionOrd(a) == CASE a = "Ban" -> 0 [] a = "Kick" -> 1 [] a = "Mute" -> 2

\* Option<String>: None or a reason text
NoReason == "None"
Reasons == {NoReason, "spam"}

\* get_rule_rooms: the rule rooms in the order get_rules visits them. The
\* placeholder of the source lists a single room; the loop is modelled over
\* a list of two, so that a room has rooms after it.
RuleRooms == <<"r1", "r2">>

NumRuleRooms == Len(RuleRooms)

\* get_protected_rooms: the rooms enforcement is meant for
ProtectedRooms == {"p1", "p2"}

\* the room of the membership event (a room the bot has joined): a protected
\* room or a rule room
EventRooms == {"p1", "r1"}

\* the members whose events are handled
MemberIds == {[localpart |-> <<"a">>, server_name |-> <<"b">>],
              [localpart |-> <<"b">>, server_name |-> <<"a">>]}

MembershipStates == {"invite", "join", "knock", "leave", "ban"}

\* the entity strings rules are written for: a full handle, a user glob and
\* a server name
MatchableEntities == {<<"@", "a", ":", "b">>, <<"@", "*", ":", "b">>, <<"b">>}

\* an entity that is no glob (its character class is never closed)
MalformedEntity == <<"[">>

\* [entity, action, reason] of a rule
RuleContents ==
    {<<e, "Ban", r>> : e \in MatchableEntities, r \in Reasons}
    \cup {<<e, a, NoReason>> : e \in MatchableEntities, a \in {"Kick", "Mute"}}
    \cup {<<MalformedEntity, "Ban", NoReason>>}

\* a sh.nao.clobber.rule state event as get_state_events returns it; set_rule
\* keys a rule by its entity. An entry with ok = FALSE is one whose content
\* does not deserialize as RuleEventContent.
RuleEntries ==
    {[state_key |-> c[1], ok |-> TRUE, entity |-> c[1], action |-> c[2],
      reason |-> c[3]] : c \in RuleContents}
    \cup
    {[state_key |-> <<"@", "a", ":", "b">>, ok |-> FALSE, entity |-> <<>>,
      action |-> "Ban", reason |-> NoReason]}

\* the state keys of a room's state are distinct
DistinctKeys(es) ==
    \A i, j \in 1..Len(es) : i # j => es[i].state_key # es[j].state_key

\* the entries of es that g places in room r; g is non-decreasing, so they
\* are consecutive
Chunk(es, g, r) ==
    LET idx == {i \in 1..Len(es) : g[i] = r} IN
    IF idx = {} THEN <<>>
    ELSE SubSeq(es, CHOOSE i \in idx : \A j \in idx : i <= j,
                    CHOOSE i \in idx : \A j \in idx : i >= j)

NonDecreasing(n) ==
    {g \in [1..n -> 1..NumRuleRooms] : \A i, j \in 1..n : i <= j => g[i] <= g[j]}

\* every way of holding at most MaxRules entries in the rule rooms
RuleStates ==
    {f \in UNION {{[r \in 1..NumRuleRooms |-> Chunk(es, g, r)] :
                      g \in NonDecreasing(Len(es))} :
                  es \in SeqsUpTo(RuleEntries, MaxRules)} :
        \A r \in 1..NumRuleRooms : DistinctKeys(f[r])}

(***************************************************************************)
(* ruma: UserId::try_from on a state key.                                  *)
(***************************************************************************)
\* a user id has the sigil, a non-empty localpart without ":" (the historical
\* grammar admits the other printable characters) and a server name
UserIdTryFromOk(s) ==
    /\ starts_with(s, <<"@">>)
    /\ \E i \in 3..(Len(s) - 1) :
          /\ s[i] = ":"
          /\ \A j \in 2..(i - 1) : s[j] # ":"
          /\ \A j \in (i + 1)..Len(s) : s[j] \in NameChars

(***************************************************************************)
(* get_rules, one rule room.                                               *)
(***************************************************************************)
is_match_rule(u, rule) == is_match_entity(u, rule.entity)

\* filter_map(deserialize_as(..).ok()): the entries that deserialize
Deserialized(es) == SelectSeq(es, LAMBDA e : e.ok)

\* is_match_rule(..).unwrap() panics on an entry whose entity is no glob
FilterPanics(u, es) ==
    \E i \in 1..Len(es) : is_match_rule(u, es[i]).tag = "Err"

\* a filter that keeps every entry
Matching_keeps_all(u, es) == es

\* the entries the filter keeps, in the order they were read
Matching(u, es) == SelectSeq(es, LAMBDA e : is_match_rule(u, e) = Ok(TRUE))

(***************************************************************************)
(* check_member: sort_by_key and first.                                    *)
(***************************************************************************)
\* a sort that puts the least severe action first
sort_by_key_reversed(es) ==
    SelectSeq(es, LAMBDA e : e.action = "Mute")
        \o SelectSeq(es, LAMBDA e : e.action = "Kick")
        \o SelectSeq(es, LAMBDA e : e.action = "Ban")

\* slice::sort_by_key is stable: ascending by the action, equal actions in
\* the order they had
sort_by_key(es) ==
    SelectSeq(es, LAMBDA e : ActionOrd(e.action) = 0)
        \o SelectSeq(es, LAMBDA e : ActionOrd(e.action) = 1)
        \o SelectSeq(es, LAMBDA e : ActionOrd(e.action) = 2)

(***************************************************************************)
(* Spec: check_member on one m.room.member event.                          *)
(***************************************************************************)
MatchIdle ==
    /\ entity = <<>>
    /\ user_id = [localpart |-> <<"a">>, server_name |-> <<"b">>]
    /\ called = "none"
    /\ result = NoResult

Init ==
    /\ MatchIdle
    /\ InviteIdle
    /\ ApplyIdle
    /\ CommandIdle
    /\ SetRuleIdle
    /\ rule_state \in RuleStates
    /\ joined \in SUBSET {RuleRooms[i] : i \in 1..NumRuleRooms}
    /\ room_member \in [room : EventRooms, state_key : MemberIds,
                        membership : MembershipStates]
    /\ pc = "idle"
    /\ ri = 0
    /\ events = <<>>
    /\ calls = <<>>
    /\ outcome = "none"

Member == room_member.state_key

\* a guard that lets every membership through
CheckMemberEnter_any_membership ==
    /\ pc = "idle"
    /\ pc' = "get_rules"
    /\ ri' = 1
    /\ UNCHANGED <<rule_state, joined, room_member, events, calls, outcome>>
    /\ UNCHANGED nonBotVars

\* check_member is entered; an event that is no invite, join or knock is
\* left alone
CheckMemberEnter ==
    /\ pc = "idle"
    /\ IF room_member.membership \in {"invite", "join", "knock"}
       THEN /\ pc' = "get_rules"
            /\ ri' = 1
            /\ outcome' = outcome
       ELSE /\ pc' = "done"
            /\ ri' = ri
            /\ outcome' = "Ok"
    /\ UNCHANGED <<rule_state, joined, room_member, events, calls>>
    /\ UNCHANGED nonBotVars

\* a loop body that gives up at a rule room the client has not joined
GetRulesSkipRoom_fatal ==
    /\ pc = "get_rules"
    /\ ri <= NumRuleRooms
    /\ RuleRooms[ri] \notin joined
    /\ pc' = "done"
    /\ outcome' = "Err"
    /\ UNCHANGED <<rule_state, joined, room_member, ri, events, calls>>
    /\ UNCHANGED nonBotVars

\* get_rules, the loop body for a rule room the client has not joined
GetRulesSkipRoom ==
    /\ pc = "get_rules"
    /\ ri <= NumRuleRooms
    /\ RuleRooms[ri] \notin joined
    /\ ri' = ri + 1
    /\ UNCHANGED <<rule_state, joined, room_member, pc, events, calls, outcome>>
    /\ UNCHANGED nonBotVars

\* get_rules, the loop body for a joined rule room whose state is read
GetRulesReadRoom ==
    /\ pc = "get_rules"
    /\ ri <= NumRuleRooms
    /\ RuleRooms[ri] \in joined
    /\ LET es == Deserialized(rule_state[ri]) IN
       IF FilterPanics(Member, es)
       THEN /\ pc' = "done"
            /\ outcome' = "panic_is_match_rule"
            /\ UNCHANGED <<ri, events>>
       ELSE /\ events' = events \o Matching(Member, es)
            /\ ri' = ri + 1
            /\ UNCHANGED <<pc, outcome>>
    /\ UNCHANGED <<rule_state, joined, room_member, calls>>
    /\ UNCHANGED nonBotVars

\* get_rules, the loop body for a joined rule room whose state read fails:
\* the unwrap panics
GetRulesReadFails ==
    /\ pc = "get_rules"
    /\ ri <= NumRuleRooms
    /\ RuleRooms[ri] \in joined
    /\ pc' = "done"
    /\ outcome' = "panic_get_state_events"
    /\ UNCHANGED <<rule_state, joined, room_member, ri, events, calls>>
    /\ UNCHANGED nonBotVars

\* get_rules returns; check_member sorts, takes the first event and turns
\* its state key into the UserId handed to apply_rule
CheckMemberResolve ==
    /\ pc = "get_rules"
    /\ ri > NumRuleRooms
    /\ events' = sort_by_key(events)
    /\ IF events = <<>>
       THEN /\ pc' = "done"
            /\ outcome' = "Ok"
       ELSE IF UserIdTryFromOk(Head(events').state_key)
            THEN /\ pc' = "apply_rule"
                 /\ outcome' = outcome
            ELSE /\ pc' = "done"
                 /\ outcome' = "Err"
    /\ UNCHANGED <<rule_state, joined, room_member, ri, calls>>
    /\ UNCHANGED nonBotVars

\* the arguments check_member hands to apply_rule
ApplyUser == Head(events).state_key
ApplyAction == Head(events).action
ApplyReason == Head(events).reason

Call(kind, room, user, reason) ==
    [kind |-> kind, room |-> room, user |-> user, reason |-> reason]

\* apply_rule, Ban and Kick: one protocol call, which the server accepts or
\* rejects
ApplyRuleBanKick ==
    /\ pc = "apply_rule"
    /\ ApplyAction \in {"Ban", "Kick"}
    /\ calls' = Append(calls, Call(IF ApplyAction = "Ban" THEN "ban" ELSE "kick",
                                   room_member.room, ApplyUser, ApplyReason))
    /\ pc' = "done"
    /\ outcome' \in {"Ok", "Err"}
    /\ UNCHANGED <<rule_state, joined, room_member, ri, events>>
    /\ UNCHANGED nonBotVars

\* apply_rule, Mute: the power levels are read, and written back with the
\* user at -1; the room may hold no power levels, and the write may be
\* rejected
ApplyRuleMute ==
    /\ pc = "apply_rule"
    /\ ApplyAction = "Mute"
    /\ \/ /\ calls' = Append(calls, Call("power_levels", room_member.room,
                                         ApplyUser, NoReason))
          /\ outcome' \in {"Ok", "Err"}
       \/ /\ calls' = calls
          /\ outcome' = "Err"
    /\ pc' = "done"
    /\ UNCHANGED <<rule_state, joined, room_member, ri, events>>
    /\ UNCHANGED nonBotVars

\* on_room_member: `check_member(..).await.unwrap()` returns when
\* check_member returned Ok and panics when it returned Err; a panic inside
\* check_member has already unwound through it
OnRoomMemberUnwrap ==
    /\ pc = "done"
    /\ pc' = IF outcome = "Ok" THEN "returned" ELSE "panicked"
    /\ UNCHANGED <<rule_state, joined, room_member, ri, events, calls, outcome>>
    /\ UNCHANGED nonBotVars

Next ==
    \/ CheckMemberEnter
    \/ GetRulesSkipRoom
    \/ GetRulesReadRoom
    \/ GetRulesReadFails
    \/ CheckMemberResolve
    \/ ApplyRuleBanKick
    \/ ApplyRuleMute
    \/ OnRoomMemberUnwrap

Spec == Init /\ [][Next]_vars

(***************************************************************************)
(* The invite handler: on_stripped_state_member and accept_invite          *)
(* (SpecInvite).                                                           *)
(***************************************************************************)
\* the user id the client is logged in as
OwnUserId == "@clobber:a"
InviteSenders == {"@admin:a", "@eve:b"}
Invitees == {OwnUserId, "@other:a"}
RoomKinds == {"Invited", "Joined", "Left"}

\* `let mut delay = 2`
InitialDelay == 2
\* `if delay > 3600`
MaxDelay == 3600

\* the allow-list test, closing over a sender that is in no list
is_allowed_anyone(allow, sender) == TRUE

\* `allow_invites.iter().any(|user| user == &event.sender)`
is_allowed(allow, sender) == sender \in allow

\* a delay that grows by a fixed step
next_delay_linear(d) == d + InitialDelay

\* `delay *= 2`
next_delay(d) == d * 2

\* a loop that gives up an order of magnitude later
gives_up_late(d) == d > 10 * MaxDelay

\* `if delay > 3600 { ...; break; }`
gives_up(d) == d > MaxDelay

InitInvite ==
    /\ MatchIdle
    /\ BotIdle
    /\ ApplyIdle
    /\ CommandIdle
    /\ SetRuleIdle
    /\ allow_invites \in SUBSET InviteSenders
    /\ invite_event \in [membership : MembershipStates, state_key : Invitees,
                         sender : InviteSenders]
    /\ invite_room \in RoomKinds
    /\ ipc = "idle"
    /\ delay = 0
    /\ accept_calls = 0
    /\ accepted = FALSE
    /\ sleeps = <<>>
    /\ ilog = <<>>
    /\ iresult = "none"

\* on_stripped_state_member: only an invite whose state key is the client's
\* own user id reaches accept_invite
OnStrippedStateMember ==
    /\ ipc = "idle"
    /\ ipc' = IF /\ invite_event.membership = "invite"
                 /\ invite_event.state_key = OwnUserId
              THEN "accept_invite"
              ELSE "ignored"
    /\ UNCHANGED <<allow_invites, invite_event, invite_room, delay,
                   accept_calls, accepted, sleeps, ilog, iresult>>
    /\ UNCHANGED nonInviteVars

\* accept_invite up to the loop: a room that is not Room::Invited returns
\* Ok, an inviter outside allow_invites is logged and returns Ok, otherwise
\* the loop is entered with delay = 2
AcceptInviteEnter ==
    /\ ipc = "accept_invite"
    /\ IF invite_room # "Invited"
       THEN /\ ipc' = "done"
            /\ iresult' = "Ok"
            /\ UNCHANGED <<delay, ilog>>
       ELSE IF ~is_allowed(allow_invites, invite_event.sender)
       THEN /\ ipc' = "done"
            /\ iresult' = "Ok"
            /\ ilog' = Append(ilog, "Unauthorized user")
            /\ UNCHANGED delay
       ELSE /\ ipc' = "joining"
            /\ delay' = InitialDelay
            /\ ilog' = Append(ilog, "Joining room")
            /\ UNCHANGED iresult
    /\ UNCHANGED <<allow_invites, invite_event, invite_room, accept_calls,
                   accepted, sleeps>>
    /\ UNCHANGED nonInviteVars

\* accept_invitation returns Ok: the loop ends, "Joined room" is logged and
\* accept_invite returns Ok
AcceptInvitationOk ==
    /\ ipc = "joining"
    /\ accept_calls' = accept_calls + 1
    /\ accepted' = TRUE
    /\ ilog' = Append(ilog, "Joined room")
    /\ ipc' = "done"
    /\ iresult' = "Ok"
    /\ UNCHANGED <<allow_invites, invite_event, invite_room, delay, sleeps>>
    /\ UNCHANGED nonInviteVars

\* accept_invitation returns Err: the loop body warns, sleeps `delay`
\* seconds and doubles the delay; past 3600 it logs the error and breaks,
\* after which the statement that follows the loop logs "Joined room" and
\* accept_invite returns Ok
AcceptInvitationErr ==
    /\ ipc = "joining"
    /\ accept_calls' = accept_calls + 1
    /\ sleeps' = Append(sleeps, delay)
    /\ delay' = next_delay(delay)
    /\ IF gives_up(next_delay(delay))
       THEN /\ ilog' = ilog \o <<"Failed to join room", "Couldn't join room",
                                 "Joined room">>
            /\ ipc' = "done"
            /\ iresult' = "Ok"
       ELSE /\ ilog' = Append(ilog, "Failed to join room")
            /\ UNCHANGED <<ipc, iresult>>
    /\ UNCHANGED <<allow_invites, invite_event, invite_room, accepted>>
    /\ UNCHANGED nonInviteVars

NextInvite ==
    \/ OnStrippedStateMember
    \/ AcceptInviteEnter
    \/ AcceptInvitationOk
    \/ AcceptInvitationErr

\* the runtime keeps polling the handler's task, and each join call returns
SpecInvite == InitInvite /\ [][NextInvite]_vars /\ WF_vars(NextInvite)

(***************************************************************************)
(* apply_rule against a room: Ban and Kick are one request each, Mute      *)
(* reads the power levels from the client's store and writes the changed   *)
(* content to the server (SpecApply).                                      *)
(***************************************************************************)
\* most power-levels writes by other sources in one behaviour
MaxExtWrites == 1

\* the apply_rule calls in flight, numbered in the order they start
Tasks == {1, 2}
RoomUsers == {"@u:a", "@v:a"}
Levels == {-1, 50}
\* `int!(-1)`
MutedLevel == -1

\* the room has no m.room.power_levels state event
NoPowerLevels == [present |-> FALSE, users |-> <<>>, events_default |-> 0]

\* the contents an m.room.power_levels event can have: a level for some of
\* the users, and one more field
PowerLevelsContents ==
    {[present |-> TRUE, users |-> u, events_default |-> e] :
        u \in UNION {[D -> Levels] : D \in SUBSET RoomUsers},
        e \in {0, 50}}

\* an insert that adds to the level the user already has
insert_relative(users, user, level) ==
    [x \in DOMAIN users \cup {user} |->
        IF x # user THEN users[x]
        ELSE IF user \in DOMAIN users THEN users[user] + level ELSE level]

\* an insert that keeps only the inserted key
insert_alone(users, user, level) == [x \in {user} |-> level]

\* BTreeMap::insert
insert(users, user, level) ==
    [x \in DOMAIN users \cup {user} |-> IF x = user THEN level ELSE users[x]]

\* a missing event read as an empty one
found_or_default(ev) == TRUE

\* `.ok_or_else(..)?` on what get_state_event returned
found(ev) == ev.present

\* the content built from the room's current state instead of the value read
write_content_fresh(read, current, user) ==
    [present |-> TRUE,
     users |-> insert(current.users, user, MutedLevel),
     events_default |-> current.events_default]

\* the content send_state_event is given: the value read, with the user's
\* level set to -1
write_content(read, current, user) ==
    [present |-> TRUE,
     users |-> insert(read.users, user, MutedLevel),
     events_default |-> read.events_default]

IdleTask ==
    [pc |-> "idle", action |-> "none", user |-> "none",
     snapshot |-> NoPowerLevels, before |-> NoPowerLevels,
     after |-> NoPowerLevels, raced |-> FALSE, was_banned |-> FALSE,
     preceded_by |-> {}, ext_seen |-> 0,
     result |-> "none"]

\* the calls that had returned when a call starts
Finished == {s \in Tasks : task[s].pc = "done"}

\* call t is the next to start
MayStart(t) ==
    /\ task[t].pc = "idle"
    /\ \A s \in Tasks : s < t => task[s].pc # "idle"

InitApply ==
    /\ MatchIdle
    /\ BotIdle
    /\ InviteIdle
    /\ CommandIdle
    /\ SetRuleIdle
    /\ power_levels \in PowerLevelsContents \cup {NoPowerLevels}
    /\ store = power_levels
    /\ membership = [u \in RoomUsers |-> "join"]
    /\ task = [t \in Tasks |-> IdleTask]
    /\ ext_writes = 0
    /\ acalls = <<>>

ACall(t, kind, user) == [task |-> t, kind |-> kind, user |-> user]

\* Action::Ban: one ban_user request, whose error is returned with `?`
ApplyRuleBan(t, user) ==
    /\ MayStart(t)
    /\ acalls' = Append(acalls, ACall(t, "ban", user))
    /\ \E ok \in BOOLEAN :
          /\ membership' = IF ok THEN [membership EXCEPT ![user] = "ban"]
                                 ELSE membership
          /\ task' = [task EXCEPT ![t] =
                        [@ EXCEPT !.pc = "done", !.action = "Ban",
                                  !.user = user,
                                  !.was_banned = (membership[user] = "ban"),
                                  !.preceded_by = Finished,
                                  !.result = IF ok THEN "Ok"
                                                   ELSE "Err_ban_user"]]
    /\ UNCHANGED <<power_levels, store, ext_writes>>
    /\ UNCHANGED nonApplyVars

\* Action::Kick: one kick_user request, whose error is returned with `?`
ApplyRuleKick(t, user) ==
    /\ MayStart(t)
    /\ acalls' = Append(acalls, ACall(t, "kick", user))
    /\ \E ok \in BOOLEAN :
          /\ membership' = IF ok /\ membership[user] = "join"
                           THEN [membership EXCEPT ![user] = "leave"]
                           ELSE membership
          /\ task' = [task EXCEPT ![t] =
                        [@ EXCEPT !.pc = "done", !.action = "Kick",
                                  !.user = user,
                                  !.preceded_by = Finished,
                                  !.result = IF ok THEN "Ok"
                                                   ELSE "Err_kick_user"]]
    /\ UNCHANGED <<power_levels, store, ext_writes>>
    /\ UNCHANGED nonApplyVars

\* Action::Mute, the read: get_state_event answers from the client's store;
\* no event there is the error "There is no `m.room.power_levels` event"
MuteRead(t, user) ==
    /\ MayStart(t)
    /\ task' = [task EXCEPT ![t] =
                  [@ EXCEPT !.pc = IF found(store) THEN "mute_write"
                                                   ELSE "done",
                            !.action = "Mute",
                            !.user = user,
                            !.snapshot = store,
                            !.preceded_by = Finished,
                            !.result = IF found(store)
                                       THEN "none"
                                       ELSE "Err_no_power_levels"]]
    /\ UNCHANGED <<power_levels, store, membership, ext_writes, acalls>>
    /\ UNCHANGED nonApplyVars

\* Action::Mute, the read fails: get_state_event or deserialize returns Err
MuteReadFails(t, user) ==
    /\ MayStart(t)
    /\ task' = [task EXCEPT ![t] =
                  [@ EXCEPT !.pc = "done", !.action = "Mute", !.user = user,
                            !.preceded_by = Finished,
                            !.result = "Err_get_state_event"]]
    /\ UNCHANGED <<power_levels, store, membership, ext_writes, acalls>>
    /\ UNCHANGED nonApplyVars

\* a power-levels write lands while these calls are between read and write
Racing(t) == {s \in Tasks \ {t} : task[s].pc = "mute_write"}

\* Action::Mute, the write: users.insert(user, -1) on the value read, then
\* send_state_event, whose error is returned with `?`
MuteWrite(t) ==
    /\ task[t].pc = "mute_write"
    /\ acalls' = Append(acalls, ACall(t, "power_levels", task[t].user))
    /\ \E ok \in BOOLEAN :
          LET content == write_content(task[t].snapshot, power_levels,
                                       task[t].user)
              written == IF ok THEN content ELSE power_levels
          IN /\ power_levels' = written
             /\ task' = [s \in Tasks |->
                   IF s = t
                   THEN [task[t] EXCEPT !.pc = "done",
                                        !.before = power_levels,
                                        !.after = written,
                                        !.ext_seen = ext_writes,
                                        !.result = IF ok
                                                   THEN "Ok"
                                                   ELSE "Err_send_state_event"]
                   ELSE IF ok /\ s \in Racing(t)
                   THEN [task[s] EXCEPT !.raced = TRUE]
                   ELSE task[s]]
    /\ UNCHANGED <<store, membership, ext_writes>>
    /\ UNCHANGED nonApplyVars

\* another source changes one user's level or another field of the room's
\* power levels
ExternalWrite ==
    /\ ext_writes < MaxExtWrites
    /\ power_levels.present
    /\ \E content \in PowerLevelsContents :
          /\ content # power_levels
          /\ \/ /\ content.users = power_levels.users
                /\ content.events_default # power_levels.events_default
             \/ /\ content.events_default = power_levels.events_default
                /\ \E x \in RoomUsers, l \in Levels :
                      content.users = insert(power_levels.users, x, l)
          /\ power_levels' = content
    /\ ext_writes' = ext_writes + 1
    /\ task' = [s \in Tasks |->
                  IF task[s].pc = "mute_write"
                  THEN [task[s] EXCEPT !.raced = TRUE]
                  ELSE task[s]]
    /\ UNCHANGED <<store, membership, acalls>>
    /\ UNCHANGED nonApplyVars

\* the sync loop brings the room's state to the client's store
Sync ==
    /\ store # power_levels
    /\ store' = power_levels
    /\ UNCHANGED <<power_levels, membership, task, ext_writes, acalls>>
    /\ UNCHANGED nonApplyVars

NextApply ==
    \/ \E t \in Tasks, user \in RoomUsers : ApplyRuleBan(t, user)
    \/ \E t \in Tasks, user \in RoomUsers : ApplyRuleKick(t, user)
    \/ \E t \in Tasks, user \in RoomUsers : MuteRead(t, user)
    \/ \E t \in Tasks, user \in RoomUsers : MuteReadFails(t, user)
    \/ \E t \in Tasks : MuteWrite(t)
    \/ ExternalWrite
    \/ Sync

SpecApply == InitApply /\ [][NextApply]_vars

(***************************************************************************)
(* Commands: on_room_message, handle_command and the command functions of  *)
(* src/src/command.rs, up to the call of set_rule (SpecCommand).           *)
(***************************************************************************)
\* most arguments after the base command in a drawn message
MaxArgs == 4

HelpWord == <<"h", "e", "l", "p">>
BanWord == <<"b", "a", "n">>
MuteWord == <<"m", "u", "t", "e">>
OtherWord == <<"x">>

\* config.bot.command_prefix: one character, or more
CommandPrefixes == {<<"!">>, <<"!", "c">>}

HelpText == "There's nothing here yet"
UnknownText == "Unrecognized command"
ArityText == "Invalid number of arguments!"

\* the words a message starts with: nothing (a leading or doubled space), a
\* prefix, a prefix glued to a word, a bare word
Vocabulary ==
    {<<>>} \cup CommandPrefixes
    \cup {<<"!">> \o w : w \in {HelpWord, BanWord, MuteWord, OtherWord}}
    \cup {HelpWord, BanWord, MuteWord, OtherWord}

\* the i-th argument word
ArgWord(i) ==
    CASE i = 1 -> <<"l">> [] i = 2 -> <<"@", "a", ":", "b">>
      [] i = 3 -> <<"r">> [] OTHER -> <<"z">>

RECURSIVE Join(_)
\* the words with one space between neighbours
Join(ws) ==
    IF ws = <<>> THEN <<>>
    ELSE IF Len(ws) = 1 THEN ws[1]
    ELSE ws[1] \o <<" ">> \o Join(Tail(ws))

\* the message bodies drawn: one or two leading words, then arguments
Bodies ==
    {Join(h \o [i \in 1..n |-> ArgWord(i)]) :
        h \in SeqsUpTo(Vocabulary, 2) \ {<<>>}, n \in 0..MaxArgs}

RECURSIVE trim_start(_)
\* str::trim_start
trim_start(str) ==
    IF str # <<>> /\ Head(str) = " " THEN trim_start(Tail(str)) ELSE str

RECURSIVE split(_)
\* str::split(' '): the pieces between the spaces, empty pieces included
split(str) ==
    IF ~contains(str, " ") THEN <<str>>
    ELSE LET i == CHOOSE k \in 1..Len(str) :
                      str[k] = " " /\ \A j \in 1..(k - 1) : str[j] # " "
         IN <<SubSeq(str, 1, i - 1)>> \o split(SubSeq(str, i + 1, Len(str)))

\* handle_command's match on the base command
dispatch(base_command) ==
    CASE base_command = HelpWord -> "help"
      [] base_command = BanWord -> "ban"
      [] OTHER -> "unknown"

InitCommand ==
    /\ MatchIdle
    /\ BotIdle
    /\ InviteIdle
    /\ ApplyIdle
    /\ SetRuleIdle
    /\ command_prefix \in CommandPrefixes
    /\ message \in [body : Bodies, msgtype : {"text", "other"},
                    room : {"Joined", "Left"}]
    /\ cpc = "idle"
    /\ words = <<>>
    /\ replies = <<>>
    /\ set_rule_calls = <<>>
    /\ cresult = "none"

\* on_room_message up to the call of handle_command: a text message in a
\* joined room whose body, leading whitespace aside, starts with the prefix
\* is split at the spaces; for a one-character prefix the first word loses
\* its first byte (a panic when that word is empty) and the prefix is put
\* in front
OnRoomMessage ==
    /\ cpc = "idle"
    /\ IF \/ message.room # "Joined"
          \/ message.msgtype # "text"
          \/ ~starts_with(trim_start(message.body), command_prefix)
       THEN cpc' = "ignored" /\ words' = words
       ELSE LET ws == split(message.body) IN
            IF Len(command_prefix) # 1
            THEN cpc' = "handle_command" /\ words' = ws
            ELSE IF ws[1] = <<>>
            THEN cpc' = "panicked" /\ words' = ws
            ELSE /\ cpc' = "handle_command"
                 /\ words' = <<command_prefix, Tail(ws[1])>> \o Tail(ws)
    /\ UNCHANGED <<command_prefix, message, replies, set_rule_calls, cresult>>
    /\ UNCHANGED nonCommandVars

\* handle_command: fewer than two words is help, otherwise the second word
\* selects the function
HandleCommand ==
    /\ cpc = "handle_command"
    /\ cpc' = IF Len(words) < 2 THEN "help" ELSE dispatch(words[2])
    /\ UNCHANGED <<command_prefix, message, words, replies, set_rule_calls,
                   cresult>>
    /\ UNCHANGED nonCommandVars

\* a function that only replies: send_reply, whose error is returned
Reply(text) ==
    /\ replies' = Append(replies, text)
    /\ cresult' \in {"Ok", "Err"}
    /\ cpc' = "unwrap"
    /\ UNCHANGED <<command_prefix, message, words, set_rule_calls>>
    /\ UNCHANGED nonCommandVars

Help == cpc = "help" /\ Reply(HelpText)

Unknown == cpc = "unknown" /\ Reply(UnknownText)

\* handle_command's `&commands[2..]`
Arguments == SubSeq(words, 3, Len(words))

\* ban with a number of arguments other than two or three
BanArity ==
    /\ cpc = "ban"
    /\ Len(Arguments) \notin {2, 3}
    /\ Reply(ArityText)

\* ban with two or three arguments: get_list_room, which can return Err or
\* panic on an unknown room, then set_rule
BanSetRule ==
    /\ cpc = "ban"
    /\ Len(Arguments) \in {2, 3}
    /\ \/ /\ cpc' = "set_rule"
          /\ set_rule_calls' =
                Append(set_rule_calls,
                       [list |-> Arguments[1], entity |-> Arguments[2],
                        action |-> "Ban",
                        reason |-> IF Len(Arguments) = 3
                                   THEN <<Arguments[3]>> ELSE <<>>])
          /\ UNCHANGED cresult
       \/ /\ cpc' = "unwrap"
          /\ cresult' = "Err"
          /\ UNCHANGED set_rule_calls
       \/ /\ cpc' = "panicked"
          /\ UNCHANGED <<set_rule_calls, cresult>>
    /\ UNCHANGED <<command_prefix, message, words, replies>>
    /\ UNCHANGED nonCommandVars

\* set_rule returns Ok or Err, which ban returns with `?`
SetRuleReturns ==
    /\ cpc = "set_rule"
    /\ cresult' \in {"Ok", "Err"}
    /\ cpc' = "unwrap"
    /\ UNCHANGED <<command_prefix, message, words, replies, set_rule_calls>>
    /\ UNCHANGED nonCommandVars

\* on_room_message: `handle_command(..).await.unwrap()`
OnRoomMessageUnwrap ==
    /\ cpc = "unwrap"
    /\ cpc' = IF cresult = "Ok" THEN "returned" ELSE "panicked"
    /\ UNCHANGED <<command_prefix, message, words, replies, set_rule_calls,
                   cresult>>
    /\ UNCHANGED nonCommandVars

NextCommand ==
    \/ OnRoomMessage
    \/ HandleCommand
    \/ Help
    \/ Unknown
    \/ BanArity
    \/ BanSetRule
    \/ SetRuleReturns
    \/ OnRoomMessageUnwrap

SpecCommand == InitCommand /\ [][NextCommand]_vars

(***************************************************************************)
(* set_rule: the rule is written to the rule room, then every joined       *)
(* protected room is gone through and the action applied to its matching   *)
(* members (SpecSetRule).                                                   *)
(***************************************************************************)
\* get_protected_rooms, in the order set_rule iterates over
ProtectedRoomList == <<"p1", "p2">>

NumProtectedRooms == Len(ProtectedRoomList)

\* client.user_id() as a UserId: the bot itself, one of the joined members
\* of every room the client has joined
OwnMemberId == [localpart |-> <<"a">>, server_name |-> <<"b">>]

\* the rule room before the write: empty, or one rule
ExistingRules == {<<>>} \cup {<<e>> : e \in {x \in RuleEntries : x.ok}}

\* the state event set_rule sends: keyed by the entity
RuleEntry(args) ==
    [state_key |-> args.entity, ok |-> TRUE, entity |-> args.entity,
     action |-> args.action, reason |-> args.reason]

\* a state event replaces the one with the same state key
upsert(rules, entry) ==
    IF \E i \in 1..Len(rules) : rules[i].state_key = entry.state_key
    THEN [i \in 1..Len(rules) |->
             IF rules[i].state_key = entry.state_key THEN entry ELSE rules[i]]
    ELSE Append(rules, entry)

\* a filter that lets every member through
matching_users_all(members, e) == members

\* `.filter(|member| is_match_entity(..).unwrap_or(false))`
matching_users(members, e) ==
    {m \in members : is_match_entity(m, e) = Ok(TRUE)}

InitSetRule ==
    /\ MatchIdle
    /\ BotIdle
    /\ InviteIdle
    /\ ApplyIdle
    /\ CommandIdle
    /\ sr_args \in {[entity |-> c[1], action |-> c[2], reason |-> c[3]] :
                       c \in RuleContents}
    /\ sr_rules \in ExistingRules
    /\ sr_members \in [1..NumProtectedRooms -> SUBSET MemberIds]
    /\ sr_joined \in SUBSET {ProtectedRoomList[i] : i \in 1..NumProtectedRooms}
    /\ sr_pc = "idle"
    /\ sr_room = 0
    /\ sr_users = {}
    /\ sr_calls = <<>>
    /\ sr_result = "none"

SrCall(kind, room, user, reason) ==
    [kind |-> kind, room |-> room, user |-> user, reason |-> reason]

\* the rule is sent to the rule room; an error is returned with `?`
SetRuleSend ==
    /\ sr_pc = "idle"
    /\ sr_calls' = Append(sr_calls, SrCall("send_rule", "list", sr_args.entity,
                                           sr_args.reason))
    /\ \/ /\ sr_rules' = upsert(sr_rules, RuleEntry(sr_args))
          /\ sr_pc' = "rooms"
          /\ sr_room' = 1
          /\ UNCHANGED sr_result
       \/ /\ sr_pc' = "done"
          /\ sr_result' = "Err"
          /\ UNCHANGED <<sr_rules, sr_room>>
    /\ UNCHANGED <<sr_args, sr_members, sr_joined, sr_users>>
    /\ UNCHANGED nonSetRuleVars

\* filter_map(get_joined_room): a protected room the client has not joined
\* is passed over
SetRuleSkipRoom ==
    /\ sr_pc = "rooms"
    /\ sr_room <= NumProtectedRooms
    /\ ProtectedRoomList[sr_room] \notin sr_joined
    /\ sr_room' = sr_room + 1
    /\ UNCHANGED <<sr_args, sr_rules, sr_members, sr_joined, sr_pc, sr_users,
                   sr_calls, sr_result>>
    /\ UNCHANGED nonSetRuleVars

\* joined_members of a joined protected room, filtered by the entity; an
\* error of joined_members is returned with `?`
SetRuleMembers ==
    /\ sr_pc = "rooms"
    /\ sr_room <= NumProtectedRooms
    /\ ProtectedRoomList[sr_room] \in sr_joined
    /\ \/ /\ sr_users' = matching_users(sr_members[sr_room], sr_args.entity)
          /\ sr_pc' = "apply"
          /\ UNCHANGED sr_result
       \/ /\ sr_pc' = "done"
          /\ sr_result' = "Err"
          /\ UNCHANGED sr_users
    /\ UNCHANGED <<sr_args, sr_rules, sr_members, sr_joined, sr_room, sr_calls>>
    /\ UNCHANGED nonSetRuleVars

\* apply_rule for the next matching user, with the action and the reason
\* given to set_rule; an error is returned with `?`. A Mute can fail before
\* it sends anything.
SetRuleApply ==
    /\ sr_pc = "apply"
    /\ \E user \in sr_users :
          LET call == SrCall(CASE sr_args.action = "Ban" -> "ban"
                               [] sr_args.action = "Kick" -> "kick"
                               [] OTHER -> "power_levels",
                             ProtectedRoomList[sr_room], user, sr_args.reason)
          IN \/ /\ sr_calls' = Append(sr_calls, call)
                /\ sr_users' = sr_users \ {user}
                /\ UNCHANGED <<sr_pc, sr_result>>
             \/ /\ sr_calls' = Append(sr_calls, call)
                /\ sr_pc' = "done"
                /\ sr_result' = "Err"
                /\ UNCHANGED sr_users
             \/ /\ sr_args.action = "Mute"
                /\ sr_pc' = "done"
                /\ sr_result' = "Err"
                /\ UNCHANGED <<sr_calls, sr_users>>
    /\ UNCHANGED <<sr_args, sr_rules, sr_members, sr_joined, sr_room>>
    /\ UNCHANGED nonSetRuleVars

\* the matching users of the room are done: on to the next room
SetRuleNextRoom ==
    /\ sr_pc = "apply"
    /\ sr_users = {}
    /\ sr_pc' = "rooms"
    /\ sr_room' = sr_room + 1
    /\ UNCHANGED <<sr_args, sr_rules, sr_members, sr_joined, sr_users,
                   sr_calls, sr_result>>
    /\ UNCHANGED nonSetRuleVars

\* the loop is over: Ok(())
SetRuleReturn ==
    /\ sr_pc = "rooms"
    /\ sr_room > NumProtectedRooms
    /\ sr_pc' = "done"
    /\ sr_result' = "Ok"
    /\ UNCHANGED <<sr_args, sr_rules, sr_members, sr_joined, sr_room, sr_users,
                   sr_calls>>
    /\ UNCHANGED nonSetRuleVars

NextSetRule ==
    \/ SetRuleSend
    \/ SetRuleSkipRoom
    \/ SetRuleMembers
    \/ SetRuleApply
    \/ SetRuleNextRoom
    \/ SetRuleReturn

SpecSetRule == InitSetRule /\ [][NextSetRule]_vars

(***************************************************************************)
(* Claims about get_rules and check_member (Spec).                         *)
(***************************************************************************)
Panicked == outcome \in {"panic_is_match_rule", "panic_get_state_events"}

\* get_rules has returned to check_member
Returned == pc \in {"apply_rule", "done"} /\ ri > NumRuleRooms

\* the rules of the joined rule rooms 1..k that deserialize and match the
\* member, room by room, each room in the order its state is read
RECURSIVE FetchedUpTo(_)
FetchedUpTo(k) ==
    IF k = 0 THEN <<>>
    ELSE FetchedUpTo(k - 1) \o
         (IF RuleRooms[k] \in joined
          THEN SelectSeq(rule_state[k],
                         LAMBDA e : e.ok /\ GlobNewOk(e.entity)
                                    /\ (\/ glob_is_match(e.entity, as_str(Member))
                                        \/ glob_is_match(e.entity, Member.server_name)))
          ELSE <<>>)

FetchedMatches == FetchedUpTo(NumRuleRooms)

CallKind(a) == CASE a = "Ban" -> "ban" [] a = "Kick" -> "kick" [] a = "Mute" -> "power_levels"

C2_OneCallTargetsMember ==
    (/\ pc = "done"
     /\ Returned
     /\ FetchedMatches # <<>>
     /\ Head(events).action \in {"Ban", "Kick"}) =>
        calls = <<Call(CallKind(Head(events).action), room_member.room,
                       as_str(Member), Head(events).reason)>>

\* no entry the client can read matches the member
NoRuleMatches ==
    \A k \in 1..NumRuleRooms : \A i \in 1..Len(rule_state[k]) :
        (RuleRooms[k] \in joined /\ rule_state[k][i].ok) =>
            is_match_rule(Member, rule_state[k][i]) # Ok(TRUE)

C9_MalformedEntrySkipped ==
    /\ outcome # "panic_is_match_rule"
    /\ Returned => events = sort_by_key(FetchedMatches)

\* C10: a rule room the client has not joined is skipped: the accumulator
\* holds the matching rules of the joined rooms visited so far, get_rules
\* returns those of all joined rooms, and no run ends at a room that is not
\* joined.
C10_UnjoinedRoomSkipped ==
    /\ pc = "get_rules" => events = FetchedUpTo(ri - 1)
    /\ Returned => events = sort_by_key(FetchedMatches)
    /\ (pc = "done" /\ ri \in 1..NumRuleRooms) =>
          (Panicked /\ RuleRooms[ri] \in joined)

\* the first rule room is not joined, and the rule of the second is returned
C10_Witness ==
    /\ Returned
    /\ RuleRooms[1] \notin joined
    /\ rule_state[1] # <<>>
    /\ RuleRooms[2] \in joined
    /\ events # <<>>

\* C11: a failed read of the rule state of a joined rule room is skipped:
\* it does not panic the handler, and no run ends before the remaining rule
\* rooms have been visited because of it.
C11_FailedReadSkipped ==
    /\ outcome # "panic_get_state_events"
    /\ (pc = "done" /\ ri \in 1..NumRuleRooms) => outcome = "panic_is_match_rule"

\* C21: a handler in which an enforcement call was issued finishes without
\* panicking, whether the call was accepted or rejected.
C21_FailureScopedToEvent ==
    calls # <<>> => pc # "panicked"

\* the order of a sequence turned round
Reverse(es) == [i \in 1..Len(es) |-> es[Len(es) + 1 - i]]

\* C28: the rule check_member selects has the action and the reason of the
\* rule that would be selected from the same matching rules fetched in the
\* opposite order.
C28_SelectionIndependentOfFetchOrder ==
    (Returned /\ events # <<>>) =>
        LET other == Head(sort_by_key(Reverse(FetchedMatches))) IN
        /\ Head(events).action = other.action
        /\ Head(events).reason = other.reason

\* C29: passive evaluation issues ban, kick and power-levels calls only in
\* protected rooms.
C29_EnforcementConfinedToProtectedRooms ==
    \A i \in 1..Len(calls) : calls[i].room \in ProtectedRooms

\* C30: for a membership event whose membership is leave or ban, check_member
\* reads no rule room, issues no call and returns Ok; rule rooms are visited
\* and calls issued only for invite, join and knock.
C30_OnlyInviteJoinKnockChecked ==
    /\ room_member.membership \in {"leave", "ban"} =>
          /\ pc \in {"idle", "done", "returned"}
          /\ ri = 0
          /\ events = <<>>
          /\ calls = <<>>
          /\ pc # "idle" => outcome = "Ok"
    /\ (ri > 0 \/ calls # <<>>) =>
          room_member.membership \in {"invite", "join", "knock"}

\* a leave event was handled although a joined rule room holds a rule that
\* matches the member
C30_Witness ==
    /\ room_member.membership = "leave"
    /\ pc = "returned"
    /\ outcome = "Ok"
    /\ \E k \in 1..NumRuleRooms :
          /\ RuleRooms[k] \in joined
          /\ \E i \in 1..Len(rule_state[k]) :
                /\ rule_state[k][i].ok
                /\ is_match_rule(Member, rule_state[k][i]) = Ok(TRUE)

(***************************************************************************)
(* Claims about the entity matcher and the entity parser (SpecMatch).      *)
(***************************************************************************)
\* the first ":" of s is at index i
FirstColonAt(s, i) == i \in 1..Len(s) /\ s[i] = ":" /\ \A j \in 1..(i - 1) : s[j] # ":"

\* s has the shape @<local>:<server>, both parts non-empty
UserShaped(s) ==
    /\ starts_with(s, <<"@">>)
    /\ \E i \in 3..(Len(s) - 1) : FirstColonAt(s, i)

\* C4: for a user pattern (leading "@"), is_match_entity answers true exactly
\* when the glob matches the full handle; a server name alone never makes it
\* match.
C4_UserPatternMatchesFullHandle ==
    (called = "is_match_entity" /\ starts_with(entity, <<"@">>)) =>
        /\ (result = Ok(TRUE)) <=>
               (GlobNewOk(entity) /\ glob_is_match(entity, as_str(user_id)))
        /\ GlobNewOk(entity) => result.tag = "Ok"

\* the glob @*:b matched against @a:b
C4_Witness ==
    /\ called = "is_match_entity"
    /\ entity = <<"@", "*", ":", "b">>
    /\ user_id = [localpart |-> <<"a">>, server_name |-> <<"b">>]
    /\ result = Ok(TRUE)

\* C5: for a server pattern (no ":", no leading "@"), is_match_entity answers
\* true exactly when the glob matches the server name, so two identities on
\* the same server get the same answer.
C5_ServerPatternDependsOnServerOnly ==
    (/\ called = "is_match_entity"
     /\ ~contains(entity, ":")
     /\ ~starts_with(entity, <<"@">>)
     /\ GlobNewOk(entity)) =>
        /\ result = Ok(glob_is_match(entity, user_id.server_name))
        /\ \A u \in UserIds :
               u.server_name = user_id.server_name =>
                   is_match_entity(u, entity) = result

\* C6: is_entity_server answers user (Ok(false)) for @<local>:<server>,
\* server (Ok(true)) for a string with no ":" and no leading "@", and the
\* error "Not a valid entity" for a string with a ":" and no leading "@".
C6_EntityParsing ==
    called = "is_entity_server" =>
        /\ UserShaped(entity) => result = Ok(FALSE)
        /\ (~contains(entity, ":") /\ ~starts_with(entity, <<"@">>)) =>
               result = Ok(TRUE)
        /\ (contains(entity, ":") /\ ~starts_with(entity, <<"@">>)) =>
               result = Err("Not a valid entity")

\* a:b is rejected
C6_Witness ==
    /\ called = "is_entity_server"
    /\ entity = <<"a", ":", "b">>
    /\ result = Err("Not a valid entity")

\* C7: a string is_entity_server classifies as a server pattern has no
\* leading "@".
C7_ServerPatternHasNoSigil ==
    (called = "is_entity_server" /\ result = Ok(TRUE)) =>
        ~starts_with(entity, <<"@">>)

\* C8: matching against an entity that is_entity_server rejects, or that is
\* a malformed glob, returns an error.
C8_InvalidEntityFailsMatching ==
    (/\ called = "is_match_entity"
     /\ (is_entity_server(entity).tag = "Err" \/ ~GlobNewOk(entity))) =>
        result.tag = "Err"

(***************************************************************************)
(* Claims about the invite handler (SpecInvite).                           *)
(***************************************************************************)
\* line was logged during the run
Logged(line) == \E i \in 1..Len(ilog) : ilog[i] = line

RECURSIVE Pow2(_)
Pow2(k) == IF k = 0 THEN 1 ELSE 2 * Pow2(k - 1)

\* C12: accept_invitation is called only for an invite event whose invitee
\* is the bot's own user id and whose sender is in allow_invites; for a
\* sender outside the list the run ends with no join call, no sleep and
\* nothing but the "Unauthorized user" line, and accept_invite returns Ok.
C12_InviteAuthorization ==
    /\ accept_calls > 0 =>
          /\ invite_event.membership = "invite"
          /\ invite_event.state_key = OwnUserId
          /\ invite_event.sender \in allow_invites
    /\ (ipc = "done" /\ invite_event.sender \notin allow_invites) =>
          /\ accept_calls = 0
          /\ sleeps = <<>>
          /\ ~accepted
          /\ iresult = "Ok"
          /\ ilog = IF invite_room = "Invited" THEN <<"Unauthorized user">>
                                               ELSE <<>>

\* an invite to the bot by a sender outside a non-empty allow-list was
\* rejected
C12_Witness ==
    /\ ipc = "done"
    /\ invite_room = "Invited"
    /\ allow_invites # {}
    /\ invite_event.sender \notin allow_invites
    /\ ilog = <<"Unauthorized user">>
    /\ iresult = "Ok"

\* C13: within one run the wait after the k-th consecutive failed join
\* attempt is 2^k seconds: the delay starts at 2, doubles after each failure
\* and is never reset or reduced.
C13_BackoffSchedule ==
    /\ \A k \in 1..Len(sleeps) : sleeps[k] = Pow2(k)
    /\ ipc = "joining" =>
          /\ delay = Pow2(Len(sleeps) + 1)
          /\ Len(sleeps) = accept_calls

\* four attempts have failed, with waits 2, 4, 8 and 16, and a fifth follows
C13_Witness ==
    /\ ipc = "joining"
    /\ sleeps = <<2, 4, 8, 16>>
    /\ delay = 32

\* C14: a run never makes more than 11 failed join attempts; once the delay
\* has exceeded 3600 the run is over and accept_invitation is not called
\* again; a run whose attempts all failed ended because the delay exceeded
\* 3600; and every run of the handler terminates.
C14_BackoffBound ==
    /\ [](/\ Len(sleeps) <= 11
          /\ accept_calls <= 11
          /\ delay > MaxDelay => ipc = "done"
          /\ (ipc = "done" /\ accept_calls > 0 /\ ~accepted) =>
                (delay > MaxDelay /\ Logged("Couldn't join room")))
    /\ [][delay > MaxDelay => accept_calls' = accept_calls]_vars
    /\ <>(ipc \in {"done", "ignored"})

\* all eleven attempts failed and the run gave up
C14_Witness ==
    /\ ipc = "done"
    /\ ~accepted
    /\ accept_calls = 11
    /\ delay > MaxDelay

\* C15: a run logs "Joined room" only if some accept_invitation call
\* succeeded; a run that gave up does not log it.
C15_JoinedOnlyAfterSuccess ==
    Logged("Joined room") => accepted

(***************************************************************************)
(* Claims about apply_rule (SpecApply).                                    *)
(***************************************************************************)
\* the level users gives to x, or "unset"
LevelOf(users, x) == IF x \in DOMAIN users THEN <<users[x]>> ELSE <<>>

\* call t is a Mute whose write the server accepted
MuteSucceeded(t) == task[t].action = "Mute" /\ task[t].result = "Ok"

\* what call t wrote differs from what it read at most in its user's level
WroteWhatItRead(t) ==
    /\ task[t].after.present
    /\ task[t].after.events_default = task[t].snapshot.events_default
    /\ \A x \in RoomUsers \ {task[t].user} :
          LevelOf(task[t].after.users, x) = LevelOf(task[t].snapshot.users, x)

\* C16: after a Mute of user U succeeds with no power-levels write by anyone
\* else between its read and its write, the room's power levels give U the
\* level -1 whatever U's level was, and every other user's level and the
\* other field are as they were read.
C16_MuteEffectAndFrame ==
    \A t \in Tasks :
        (MuteSucceeded(t) /\ ~task[t].raced) =>
            /\ LevelOf(task[t].after.users, task[t].user) = <<MutedLevel>>
            /\ WroteWhatItRead(t)

\* a user at level 50 was muted in a room that gives a level to another user
C16_Witness ==
    \E t \in Tasks :
        /\ MuteSucceeded(t)
        /\ ~task[t].raced
        /\ LevelOf(task[t].snapshot.users, task[t].user) = <<50>>
        /\ DOMAIN task[t].snapshot.users = RoomUsers
        /\ power_levels = task[t].after
        /\ power_levels.users[task[t].user] = MutedLevel

\* the requests call t sent
CallsOf(t) == {i \in 1..Len(acalls) : acalls[i].task = t}

\* C17: a Mute that finds no m.room.power_levels event returns the error and
\* sends nothing: no power-levels write, no ban, no kick.
C17_NoPowerLevelsAbortsMute ==
    \A t \in Tasks :
        (/\ task[t].action = "Mute"
         /\ task[t].result # "Err_get_state_event"
         /\ ~task[t].snapshot.present) =>
            /\ task[t].pc = "done"
            /\ task[t].result = "Err_no_power_levels"
            /\ CallsOf(t) = {}
            /\ ~power_levels.present

\* a Mute ended with the missing-event error in a room without power levels
C17_Witness ==
    \E t \in Tasks :
        /\ task[t].action = "Mute"
        /\ task[t].result = "Err_no_power_levels"
        /\ ~store.present
        /\ acalls = <<>>

\* C18: the write of a Mute is not conditioned on the room's current power
\* levels: when another writer's change landed between the read and the
\* write, the Mute still returns Ok and its write carries the values it
\* read, so the change is gone.
C18_MuteOverwritesConcurrentChange ==
    \A t \in Tasks :
        (MuteSucceeded(t) /\ task[t].raced) => WroteWhatItRead(t)

\* another source changed events_default between the read and the write of
\* the only call; the call returned Ok and the room has the old value again
C18_Witness ==
    \E t \in Tasks :
        /\ MuteSucceeded(t)
        /\ task[t].raced
        /\ \A s \in Tasks \ {t} : task[s].pc = "idle"
        /\ task[t].before.events_default # task[t].snapshot.events_default
        /\ power_levels = task[t].after
        /\ power_levels.events_default = task[t].snapshot.events_default

\* call t is a Mute of the same user that started after the Mute s had
\* succeeded
MutedAgain(s, t) ==
    /\ s # t
    /\ MuteSucceeded(s)
    /\ s \in task[t].preceded_by
    /\ task[t].action = "Mute"
    /\ task[t].user = task[s].user

C20_BanIdempotentForCaller ==
    \A t \in Tasks :
        (task[t].action = "Ban" /\ task[t].was_banned) =>
            /\ task[t].result = "Ok"
            /\ membership[task[t].user] = "ban"

\* the Mute calls s and t, for different users, overlapped: neither had
\* returned when the other started
MutedConcurrently(s, t) ==
    /\ s # t
    /\ task[s].action = "Mute"
    /\ task[t].action = "Mute"
    /\ task[s].user # task[t].user
    /\ s \notin task[t].preceded_by
    /\ t \notin task[s].preceded_by

\* C31: when two Mute calls for different users in the same room overlap and
\* both return Ok, with no write by another source, the room's power levels
\* afterwards give both users the level -1.
C31_ConcurrentMutesBothKept ==
    \A s, t \in Tasks :
        (/\ MutedConcurrently(s, t)
         /\ MuteSucceeded(s)
         /\ MuteSucceeded(t)
         /\ ext_writes = 0) =>
            /\ LevelOf(power_levels.users, task[s].user) = <<MutedLevel>>
            /\ LevelOf(power_levels.users, task[t].user) = <<MutedLevel>>

(***************************************************************************)
(* Claims about the commands (SpecCommand).                                *)
(***************************************************************************)
\* on_room_message is over
Handled == cpc \in {"returned", "panicked"}

\* handle_command was given a base command and arguments
HasBase == cpc \notin {"idle", "ignored"} /\ Len(words) >= 2

Replied(text) == \E i \in 1..Len(replies) : replies[i] = text

\* C22: when set_rule, called for a ban command, returns an error, a reply is
\* sent to the room of the command.
C22_EnforcementErrorReplied ==
    (Handled /\ set_rule_calls # <<>> /\ cresult = "Err") => replies # <<>>

\* the action a base command stands for
ActionOfCommand(base) == IF base = BanWord THEN "Ban" ELSE "Mute"

\* C23: a command whose base command is ban or mute, with two or three
\* arguments, is never answered as unrecognized, calls set_rule with nothing
\* but the action of the command and the entity given, and has called it
\* when the handler returns.
C23_BanAndMuteDispatched ==
    (/\ HasBase
     /\ words[2] \in {BanWord, MuteWord}
     /\ Len(Arguments) \in {2, 3}
     /\ cpc # "handle_command") =>
        /\ cpc # "unknown"
        /\ ~Replied(UnknownText)
        /\ \A i \in 1..Len(set_rule_calls) :
              /\ set_rule_calls[i].action = ActionOfCommand(words[2])
              /\ set_rule_calls[i].entity = Arguments[2]
        /\ cpc = "returned" => Len(set_rule_calls) = 1

\* C24: a ban or mute command with fewer than two or more than three
\* arguments is answered with "Invalid number of arguments!" and set_rule is
\* not called.
C24_WrongArityRejected ==
    (/\ HasBase
     /\ words[2] \in {BanWord, MuteWord}
     /\ Len(Arguments) \notin {2, 3}) =>
        /\ set_rule_calls = <<>>
        /\ Handled => replies = <<ArityText>>

\* C25: a text message in a joined room whose body is the command prefix
\* alone is answered with the help text.
C25_PrefixAloneGetsHelp ==
    (/\ Handled
     /\ message.room = "Joined"
     /\ message.msgtype = "text"
     /\ message.body = command_prefix) =>
        replies = <<HelpText>>

\* the message is one on_room_message takes for a command: a text message
\* in a joined room whose body starts with the prefix once its leading
\* spaces are dropped
IsCommandMessage ==
    /\ message.room = "Joined"
    /\ message.msgtype = "text"
    /\ LET body == trim_start(message.body) IN
          /\ Len(body) >= Len(command_prefix)
          /\ SubSeq(body, 1, Len(command_prefix)) = command_prefix

\* the word that follows the prefix in the body
BaseCommandOf(body) ==
    LET trimmed == trim_start(body)
        rest == SubSeq(trimmed, Len(command_prefix) + 1, Len(trimmed))
    IN Head(split(trim_start(rest)))

\* C32: on_room_message, given a command message, does not panic on the way
\* to handle_command and hands it a word list whose first word is the
\* prefix and whose second word, when there is one, is the base command.
C32_TokenisedForHandleCommand ==
    [][(cpc = "idle" /\ IsCommandMessage) =>
          /\ cpc' = "handle_command"
          /\ Head(words') = command_prefix
          /\ Len(words') >= 2 => words'[2] = BaseCommandOf(message.body)]_vars

(***************************************************************************)
(* Claims about set_rule (SpecSetRule).                                    *)
(***************************************************************************)
\* member m matches entity e, as is_match_entity decides it
MatchesEntity(m, e) ==
    /\ GlobNewOk(e)
    /\ glob_is_match(e, as_str(m)) \/ glob_is_match(e, m.server_name)

\* the enforcement requests among sr_calls
Enforcements == {i \in 1..Len(sr_calls) : sr_calls[i].kind # "send_rule"}

\* the requests that apply the action to member m in protected room k
AppliedTo(k, m) ==
    {i \in Enforcements :
        /\ sr_calls[i].room = ProtectedRoomList[k]
        /\ sr_calls[i].user = m
        /\ sr_calls[i].kind = CallKind(sr_args.action)
        /\ sr_calls[i].reason = sr_args.reason}

\* C26: the rule is sent, keyed by its entity, before any enforcement
\* request; when set_rule has returned Ok, every joined member of every
\* joined protected room that matches the entity has had the action applied
\* exactly once, and every enforcement request is for such a member.
C26_RetroactiveEnforcement ==
    /\ sr_calls # <<>> =>
          /\ sr_calls[1].kind = "send_rule"
          /\ sr_calls[1].user = sr_args.entity
          /\ \A i \in Enforcements : i > 1
    /\ (Enforcements # {} \/ sr_result = "Ok") =>
          \E i \in 1..Len(sr_rules) : sr_rules[i] = RuleEntry(sr_args)
    /\ \A i \in Enforcements :
          \E k \in 1..NumProtectedRooms :
             /\ ProtectedRoomList[k] \in sr_joined
             /\ sr_calls[i].user \in sr_members[k]
             /\ MatchesEntity(sr_calls[i].user, sr_args.entity)
             /\ i \in AppliedTo(k, sr_calls[i].user)
    /\ sr_result = "Ok" =>
          \A k \in 1..NumProtectedRooms : \A m \in sr_members[k] :
             Cardinality(AppliedTo(k, m)) =
                IF /\ ProtectedRoomList[k] \in sr_joined
                   /\ MatchesEntity(m, sr_args.entity)
                THEN 1 ELSE 0

\* set_rule returned Ok after banning the matching member of each of the two
\* joined protected rooms and leaving the member that does not match alone
C26_Witness ==
    /\ sr_result = "Ok"
    /\ sr_args.action = "Ban"
    /\ sr_joined = {"p1", "p2"}
    /\ sr_members[1] = MemberIds
    /\ sr_members[2] # {}
    /\ Cardinality(Enforcements) = 2
    /\ \E m \in sr_members[1] : ~MatchesEntity(m, sr_args.entity)

\* C27: the action set_rule applies to a member is the action passive
\* evaluation selects for that member from the rule room's state after the
\* write: the most severe action among the rules that match the member.
C27_RetroactiveUsesUpdatedRuleSet ==
    \A i \in Enforcements :
        LET selected == sort_by_key(Matching(sr_calls[i].user,
                                             Deserialized(sr_rules)))
        IN /\ selected # <<>>
           /\ sr_calls[i].kind = CallKind(Head(selected).action)

\* the bot is among the joined members of the protected rooms it has joined
OwnMembership ==
    \A k \in 1..NumProtectedRooms :
        ProtectedRoomList[k] \in sr_joined => OwnMemberId \in sr_members[k]

\* C33: set_rule sends no ban, kick or power-levels request whose target is
\* the bot's own user id, whatever the entity of the rule matches.
C33_NeverEnforcesOnItself ==
    OwnMembership =>
        \A i \in Enforcements : sr_calls[i].user # OwnMemberId

====
